---- MODULE Spec2Model ----
(***************************************************************************)
(* A model of the Monkey interpreter front end: package token, package     *)
(* parser, package ast and the repl loop.  Go strings are sequences of     *)
(* one-character strings, so that rendering (String) and tokenizing are    *)
(* real conversions.                                                       *)
(***************************************************************************)
EXTENDS Integers, Sequences, FiniteSets, TLC

(***************************************************************************)
(* Bounds.                                                                 *)
(***************************************************************************)
\* number of words in an enumerated source text
MaxWords == 4
\* number of digits in an enumerated integer literal
MaxDigits == 3
\* number of letters in an enumerated identifier
MaxIdent == 3
\* number of lines the repl reads
MaxLines == 2

(***************************************************************************)
(* package token (src/repl/repl.go, third file of the concatenation)       *)
(***************************************************************************)
ILLEGAL == "ILLEGAL"
EOF == "EOF"
IDENT == "IDENT"
INT == "INT"
ASSIGN == "="
PLUS == "+"
MINUS == "-"
BANG == "!"
ASTERISK == "*"
SLASH == "/"
LT == "<"
GT == ">"
EQ == "=="
NOT_EQ == "!="
COMMA == ","
SEMICOLON == ";"
LPAREN == "("
RPAREN == ")"
LBRACE == "}"
RBRACE == "}"
FUNCTION == "FUNCTION"
LET_ == "LET"
TRUE_ == "TRUE"
FALSE_ == "FALSE"
IF_ == "IF"
ELSE_ == "ELSE"
RETURN == "RETURN"

\* type Token struct { Type TokenType; Literal string }
Token(t, lit) == [Type |-> t, Literal |-> lit]

\* the zero value of Token
ZeroToken == Token("", <<>>)

\* var keywords = map[string]TokenType{...}
keywords ==
  ( <<"f", "n">> :> FUNCTION ) @@
  ( <<"l", "e", "t">> :> LET_ ) @@
  ( <<"t", "r", "u", "e">> :> TRUE_ ) @@
  ( <<"f", "a", "l", "s", "e">> :> FALSE_ ) @@
  ( <<"i", "f">> :> IF_ ) @@
  ( <<"e", "l", "s", "e">> :> ELSE_ ) @@
  ( <<"r", "e", "t", "u", "r", "n">> :> RETURN )

\* LookupIdent over a keyword table that lacks the entry of "else"
LookupIdent_NoElse(ident) ==
  IF ident \in DOMAIN keywords \ { <<"e", "l", "s", "e">> }
    THEN keywords[ident] ELSE IDENT

\* func LookupIdent(ident string) TokenType
LookupIdent(ident) ==
  IF ident \in DOMAIN keywords THEN keywords[ident] ELSE IDENT

(***************************************************************************)
(* package lexer.  Its source is not part of the tree; it is modelled from *)
(* section 4.1 of the specification.                                       *)
(***************************************************************************)
Letters ==
  { "a", "b", "c", "d", "e", "f", "g", "h", "i", "j", "k", "l", "m",
    "n", "o", "p", "q", "r", "s", "t", "u", "v", "w", "x", "y", "z",
    "A", "B", "C", "D", "E", "F", "G", "H", "I", "J", "K", "L", "M",
    "N", "O", "P", "Q", "R", "S", "T", "U", "V", "W", "X", "Y", "Z", "_" }

Digits == { "0", "1", "2", "3", "4", "5", "6", "7", "8", "9" }

Whitespace == { " ", "\t", "\n", "\r" }

\* single-character tokens other than = and !
SingleChar ==
  ( "+" :> PLUS ) @@ ( "-" :> MINUS ) @@ ( "*" :> ASTERISK ) @@
  ( "/" :> SLASH ) @@ ( "<" :> LT ) @@ ( ">" :> GT ) @@
  ( "," :> COMMA ) @@ ( ";" :> SEMICOLON ) @@ ( "(" :> LPAREN ) @@
  ( ")" :> RPAREN ) @@ ( "{" :> LBRACE ) @@ ( "}" :> RBRACE )

\* lexer.New(input)
LexerNew(input) == [input |-> input, position |-> 1]

\* first index >= i of s whose character is not in cs (Len(s)+1 if none)
RECURSIVE SkipWhile(_, _, _)
SkipWhile(s, i, cs) ==
  IF i <= Len(s) /\ s[i] \in cs THEN SkipWhile(s, i + 1, cs) ELSE i

\* Lexer.NextToken: the token at the cursor and the lexer past it
NextToken(lx) ==
  LET s == lx.input
      i == SkipWhile(s, lx.position, Whitespace)
      one(t) == [tok |-> Token(t, <<s[i]>>), l |-> [lx EXCEPT !.position = i + 1]]
      two(t) == [tok |-> Token(t, <<s[i], s[i + 1]>>),
                 l |-> [lx EXCEPT !.position = i + 2]]
  IN IF i > Len(s)
       THEN [tok |-> Token(EOF, <<>>), l |-> [lx EXCEPT !.position = i]]
     ELSE IF s[i] \in Letters
       THEN LET j == SkipWhile(s, i, Letters \cup Digits)
                lit == SubSeq(s, i, j - 1)
            IN [tok |-> Token(LookupIdent(lit), lit),
                l |-> [lx EXCEPT !.position = j]]
     ELSE IF s[i] \in Digits
       THEN LET j == SkipWhile(s, i, Digits)
            IN [tok |-> Token(INT, SubSeq(s, i, j - 1)),
                l |-> [lx EXCEPT !.position = j]]
     ELSE IF s[i] = "=" THEN
       IF i < Len(s) /\ s[i + 1] = "=" THEN two(EQ) ELSE one(ASSIGN)
     ELSE IF s[i] = "!" THEN
       IF i < Len(s) /\ s[i + 1] = "=" THEN two(NOT_EQ) ELSE one(BANG)
     ELSE IF s[i] \in DOMAIN SingleChar THEN one(SingleChar[s[i]])
     ELSE one(ILLEGAL)

(***************************************************************************)
(* package ast (src/ast/ast.go)                                            *)
(***************************************************************************)
\* a nil Expression interface value
NilExpression == [node |-> "nil"]

\* a nil Statement interface value
NilStatement == [node |-> "nil"]

\* a Statement interface value that holds a nil *ast.LetStatement: what the
\* conversion of parseLetStatement's `return nil` to ast.Statement yields
NilLetStatement == [node |-> "*ast.LetStatement", isNil |-> TRUE]

Identifier(tok, value) ==
  [node |-> "*ast.Identifier", Token |-> tok, Value |-> value]

IntegerLiteral(tok, value) ==
  [node |-> "*ast.IntegerLiteral", Token |-> tok, Value |-> value]

PrefixExpression(tok, operator, right) ==
  [node |-> "*ast.PrefixExpression", Token |-> tok, Operator |-> operator,
   Right |-> right]

LetStatement(tok, name, value) ==
  [node |-> "*ast.LetStatement", isNil |-> FALSE, Token |-> tok,
   Name |-> name, Value |-> value]

ReturnStatement(tok, value) ==
  [node |-> "*ast.ReturnStatement", Token |-> tok, ReturnValue |-> value]

ExpressionStatement(tok, expression) ==
  [node |-> "*ast.ExpressionStatement", Token |-> tok,
   Expression |-> expression]

\* the outcome of a String() call: the text, or a nil-dereference panic
Text(s) == [ok |-> TRUE, out |-> s]
Panic == [ok |-> FALSE, out |-> <<>>]

\* a + b on two outcomes: a panic in either operand unwinds the caller
Cat(a, b) == IF a.ok /\ b.ok THEN Text(a.out \o b.out) ELSE Panic

\* Identifier.String, IntegerLiteral.String, PrefixExpression.String; a call
\* on a nil interface value dereferences nil
RECURSIVE ExpressionString(_)
ExpressionString(e) ==
  IF e = NilExpression THEN Panic
  ELSE IF e.node = "*ast.Identifier" THEN Text(e.Value)
  ELSE IF e.node = "*ast.IntegerLiteral" THEN Text(e.Token.Literal)
  ELSE Cat(Text(<<"(">> \o e.Operator),
           Cat(ExpressionString(e.Right), Text(<<")">>)))

\* LetStatement.String
LetStatementString(ls) ==
  IF ls.isNil THEN Panic
  ELSE Cat(Text(ls.Token.Literal \o <<" ">>),
       Cat(ExpressionString(ls.Name),
       Cat(Text(<<" ", "=", " ">>),
       Cat(IF ls.Value # NilExpression THEN ExpressionString(ls.Value)
                                       ELSE Text(<<>>),
           Text(<<";">>)))))

\* ReturnStatement.String
ReturnStatementString(rs) ==
  Cat(Text(rs.Token.Literal \o <<" ">>),
  Cat(IF rs.ReturnValue # NilExpression THEN ExpressionString(rs.ReturnValue)
                                        ELSE Text(<<>>),
      Text(<<";">>)))

\* ExpressionStatement.String
ExpressionStatementString(es) ==
  IF es.Expression # NilExpression THEN ExpressionString(es.Expression)
                                   ELSE Text(<<>>)

\* s.String() on a Statement interface value (dynamic dispatch)
StatementString(s) ==
  IF s.node = "*ast.LetStatement" THEN LetStatementString(s)
  ELSE IF s.node = "*ast.ReturnStatement" THEN ReturnStatementString(s)
  ELSE ExpressionStatementString(s)

\* Program.String: the statements' renderings, concatenated
RECURSIVE ProgramString(_)
ProgramString(stmts) ==
  IF stmts = <<>> THEN Text(<<>>)
  ELSE Cat(StatementString(Head(stmts)), ProgramString(Tail(stmts)))

(***************************************************************************)
(* package parser (src/parser/parser.go).  A parser value p is the Parser  *)
(* struct: [l, errors, curToken, peekToken]; prefixParseFns is fixed by    *)
(* New and infixParseFns is never filled.                                  *)
(***************************************************************************)
LOWEST == 1
PREFIX == 6

\* fmt.Sprintf(format, types...) on token types, kept as its format and its
\* operands
Sprintf(format, types) == [format |-> format, types |-> types]

\* fmt.Sprintf(format, literal) on a token literal
SprintfQ(format, literal) == [format |-> format, literal |-> literal]

DigitValue ==
  ( "0" :> 0 ) @@ ( "1" :> 1 ) @@ ( "2" :> 2 ) @@ ( "3" :> 3 ) @@
  ( "4" :> 4 ) @@ ( "5" :> 5 ) @@ ( "6" :> 6 ) @@ ( "7" :> 7 ) @@
  ( "8" :> 8 ) @@ ( "9" :> 9 )

\* the value of the digits s in the given base, most significant first
RECURSIVE DigitsValue(_, _)
DigitsValue(s, base) ==
  IF s = <<>> THEN 0
  ELSE DigitsValue(SubSeq(s, 1, Len(s) - 1), base) * base
       + DigitValue[s[Len(s)]]

\* strconv.ParseInt(s, 0, 64) on a string of ASCII digits: base 0 takes a
\* leading "0" as the octal prefix, and a digit not below the base is a
\* syntax error.  (The literals of the model stay far below 2^63, so the
\* range error does not arise.)
ParseInt(s) ==
  LET octal == s[1] = "0"
      base == IF octal THEN 8 ELSE 10
      body == IF octal THEN Tail(s) ELSE s
  IN IF \E i \in 1..Len(body) : DigitValue[body[i]] >= base
       THEN [err |-> TRUE, value |-> 0]
       ELSE [err |-> FALSE, value |-> DigitsValue(body, base)]

\* Parser.nextToken with its two assignments in the other order
nextToken_PeekFirst(p) ==
  LET n == NextToken(p.l)
  IN [p EXCEPT !.curToken = n.tok, !.peekToken = n.tok, !.l = n.l]

\* Parser.nextToken
nextToken(p) ==
  LET n == NextToken(p.l)
  IN [p EXCEPT !.curToken = p.peekToken, !.peekToken = n.tok, !.l = n.l]

\* Parser.curTokenIs
curTokenIs(p, t) == p.curToken.Type = t

\* Parser.peekTokenIs
peekTokenIs(p, t) == p.peekToken.Type = t

\* peekError as a version that records nothing (the first expectPeek of the
\* repository had no peekError call)
peekError_Silent(p, t) == p

\* Parser.peekError
peekError(p, t) ==
  [p EXCEPT !.errors =
     Append(@, Sprintf("expected next token to be %s, got %s instead",
                       <<t, p.peekToken.Type>>))]

\* Parser.noPrefixParseFnError
noPrefixParseFnError(p, t) ==
  [p EXCEPT !.errors =
     Append(@, Sprintf("no prefix parse function for %s found", <<t>>))]

\* Parser.expectPeek: the parser afterwards and the result
expectPeek(p, t) ==
  IF peekTokenIs(p, t) THEN [p |-> nextToken(p), ok |-> TRUE]
                       ELSE [p |-> peekError(p, t), ok |-> FALSE]

\* the prefixParseFns map as New registers it
prefixParseFns ==
  ( IDENT :> "parseIdentifier" ) @@ ( INT :> "parseIntegerLiteral" ) @@
  ( BANG :> "parsePrefixExpression" ) @@ ( MINUS :> "parsePrefixExpression" )

\* Parser.parseIdentifier
parseIdentifier(p) ==
  [p |-> p, e |-> Identifier(p.curToken, p.curToken.Literal)]

\* Parser.parseIntegerLiteral
parseIntegerLiteral(p) ==
  LET r == ParseInt(p.curToken.Literal)
  IN IF r.err
       THEN [p |-> [p EXCEPT !.errors =
                      Append(@, SprintfQ("could not parse %q as integer",
                                         p.curToken.Literal))],
             e |-> NilExpression]
       ELSE [p |-> p, e |-> IntegerLiteral(p.curToken, r.value)]

\* Parser.parseExpression and Parser.parsePrefixExpression: the parser
\* afterwards and the Expression returned
RECURSIVE parseExpression(_, _)
parsePrefixExpression(p) ==
  LET r == parseExpression(nextToken(p), PREFIX)
  IN [p |-> r.p,
      e |-> PrefixExpression(p.curToken, p.curToken.Literal, r.e)]

parseExpression(p, precidence) ==
  IF p.curToken.Type \notin DOMAIN prefixParseFns
    THEN [p |-> noPrefixParseFnError(p, p.curToken.Type),
          e |-> NilExpression]
  ELSE LET prefix == prefixParseFns[p.curToken.Type]
       IN IF prefix = "parseIdentifier" THEN parseIdentifier(p)
          ELSE IF prefix = "parseIntegerLiteral" THEN parseIntegerLiteral(p)
          ELSE parsePrefixExpression(p)

\* Parser.parseExpressionStatement: the parser afterwards and the statement
parseExpressionStatement(p) ==
  LET r == parseExpression(p, LOWEST)
      s == ExpressionStatement(p.curToken, r.e)
  IN [p |-> IF peekTokenIs(r.p, SEMICOLON) THEN nextToken(r.p) ELSE r.p,
      s |-> s]

\* Parser.parseLetStatement up to its skipping loop: the parser afterwards,
\* the statement built so far, and whether the loop is reached (otherwise
\* the function has returned nil)
parseLetStatement(p) ==
  LET a == expectPeek(p, IDENT)
      name == Identifier(a.p.curToken, a.p.curToken.Literal)
      b == expectPeek(a.p, ASSIGN)
  IN IF ~a.ok THEN [p |-> a.p, s |-> NilLetStatement, loop |-> FALSE]
     ELSE IF ~b.ok THEN [p |-> b.p, s |-> NilLetStatement, loop |-> FALSE]
     ELSE [p |-> b.p, s |-> LetStatement(p.curToken, name, NilExpression),
           loop |-> TRUE]

\* Parser.parseReturnStatement up to its skipping loop
parseReturnStatement(p) ==
  [p |-> nextToken(p), s |-> ReturnStatement(p.curToken, NilExpression)]

(***************************************************************************)
(* package evaluator.  Its source is not part of the tree (only its test   *)
(* is); Eval is modelled from section 4.3 of the specification, for the    *)
(* programs this parser can produce without an error.                      *)
(***************************************************************************)
Integer(v) == [type |-> "INTEGER", value |-> v]
Boolean(b) == [type |-> "BOOLEAN", bool |-> b]
Error(m) == [type |-> "ERROR", message |-> m]
NoValue == [type |-> "NULL"]

RECURSIVE EvalExpression(_)
EvalExpression(e) ==
  IF e = NilExpression THEN NoValue
  ELSE IF e.node = "*ast.IntegerLiteral" THEN Integer(e.Value)
  ELSE IF e.node = "*ast.Identifier" THEN Error("identifier not found")
  ELSE LET right == EvalExpression(e.Right)
       IN IF right.type = "ERROR" THEN right
          ELSE IF e.Operator = <<"!">>
            THEN Boolean(right.type = "NULL"
                         \/ (right.type = "BOOLEAN" /\ ~right.bool))
          ELSE IF right.type = "INTEGER" THEN Integer(0 - right.value)
          ELSE Error("type error")

EvalStatement(s) ==
  IF s.node = "*ast.ExpressionStatement" THEN EvalExpression(s.Expression)
  ELSE NoValue

\* Eval(program): the statements in order; an Error ends the evaluation,
\* otherwise the value of the last statement is the result
RECURSIVE Eval(_)
Eval(stmts) ==
  IF stmts = <<>> THEN NoValue
  ELSE LET v == EvalStatement(Head(stmts))
       IN IF v.type = "ERROR" \/ Len(stmts) = 1 THEN v ELSE Eval(Tail(stmts))

(***************************************************************************)
(* Source texts.                                                           *)
(***************************************************************************)
Words ==
  { <<"l", "e", "t">>, <<"r", "e", "t", "u", "r", "n">>, <<"a">>, <<"5">>,
    <<"-">>, <<"!">>, <<";">>, <<"=">> }

\* the texts of at most n words, separated by single spaces
RECURSIVE WordTexts(_)
WordTexts(n) ==
  IF n = 0 THEN { <<>> }
  ELSE LET shorter == WordTexts(n - 1)
       IN shorter \cup Words
          \cup { t \o <<" ">> \o w : t \in shorter \ { <<>> }, w \in Words }

\* the strings of 1..n characters of cs
RECURSIVE Strings(_, _)
Strings(cs, n) ==
  IF n = 0 THEN {}
  ELSE LET shorter == Strings(cs, n - 1)
       IN { <<c>> : c \in cs } \cup shorter
          \cup { t \o <<c>> : t \in shorter, c \in cs }

\* "5 + 5 * 10"
Src_5p5m10 == <<"5", " ", "+", " ", "5", " ", "*", " ", "1", "0">>
\* "-a * b"
Src_negAmB == <<"-", "a", " ", "*", " ", "b">>
\* "3 + 4; -5 * 5"
Src_two == <<"3", " ", "+", " ", "4", ";", " ", "-", "5", " ", "*", " ", "5">>
\* "a + b - c"
Src_aPbMc == <<"a", " ", "+", " ", "b", " ", "-", " ", "c">>
\* "let x = 5"
Src_letNoSemi == <<"l", "e", "t", " ", "x", " ", "=", " ", "5">>
\* "return 5"
Src_returnNoSemi == <<"r", "e", "t", "u", "r", "n", " ", "5">>
\* "!-a"
Src_bangNegA == <<"!", "-", "a">>
\* "-;"
Src_negSemi == <<"-", ";">>
\* "let 5; let a 5; a"
Src_twoBadLets ==
  <<"l", "e", "t", " ", "5", ";", " ", "l", "e", "t", " ", "a", " ", "5",
    ";", " ", "a">>

\* "{ }"
Src_braces == <<"{", " ", "}">>

Examples ==
  { Src_5p5m10, Src_negAmB, Src_two, Src_aPbMc, Src_letNoSemi,
    Src_returnNoSemi, Src_bangNegA, Src_negSemi, Src_twoBadLets,
    Src_braces }

Texts == WordTexts(MaxWords) \cup Strings(Digits, MaxDigits) \cup Examples

(***************************************************************************)
(* State.                                                                  *)
(***************************************************************************)
VARIABLES
  l,          \* Parser.l: the lexer, [input, position]
  errors,     \* Parser.errors
  curToken,   \* Parser.curToken
  peekToken,  \* Parser.peekToken
  program,    \* program.Statements of the running ParseProgram
  stmt,       \* stmt of the running parseLetStatement / parseReturnStatement
  pc,         \* the function the control is in
  rendered,   \* the outcome of program.String()
  round,      \* 1: the source text is parsed; 2: its rendering is
  first,      \* the rendering of round 1
  out,        \* repl: what Start has written to out
  lineNo,     \* repl: the number of lines Start has read
  evalCalls,  \* repl: the lines evaluator.Eval was called for, in order
  ident,      \* the argument of the last LookupIdent call
  tokType     \* the result of the last LookupIdent call

\* the state of the caller that renders and parses again
caller == << rendered, round, first >>

\* the state of the repl
shell == << out, lineNo, evalCalls >>

\* the state of the LookupIdent caller
lookup == << ident, tokType >>

vars ==
  << l, errors, curToken, peekToken, program, stmt, pc, caller, shell,
     lookup >>

\* the Parser struct
P == [l |-> l, errors |-> errors, curToken |-> curToken,
      peekToken |-> peekToken]

SetP(q) ==
  /\ l' = q.l
  /\ errors' = q.errors
  /\ curToken' = q.curToken
  /\ peekToken' = q.peekToken

\* the parser over lexer lx before New's two nextToken calls
Fresh(lx) ==
  [l |-> lx, errors |-> <<>>, curToken |-> ZeroToken, peekToken |-> ZeroToken]

Init ==
  /\ l = LexerNew(<<>>)
  /\ errors = <<>>
  /\ curToken = ZeroToken
  /\ peekToken = ZeroToken
  /\ program = <<>>
  /\ stmt = NilStatement
  /\ pc = "lexer.New"
  /\ rendered = Text(<<>>)
  /\ round = 1
  /\ first = Text(<<>>)
  /\ out = <<>>
  /\ lineNo = 0
  /\ evalCalls = <<>>
  /\ ident = <<>>
  /\ tokType = ""

\* the caller hands a source text to the pipeline: l := lexer.New(input)
LexNew ==
  /\ pc = "lexer.New"
  /\ \E input \in Texts : l' = LexerNew(input)
  /\ pc' = "New"
  /\ UNCHANGED << errors, curToken, peekToken, program, stmt, caller,
                  shell, lookup >>

\* New: read two tokens, so curToken and peekToken are both set
New ==
  /\ pc = "New"
  /\ SetP(nextToken(nextToken(P)))
  /\ pc' = "ParseProgram"
  /\ UNCHANGED << program, stmt, caller, shell, lookup >>

\* the rest of an iteration of ParseProgram's loop once parseStatement has
\* returned s with the parser in q: append s unless it is nil, then nextToken
EndIteration(q, s) ==
  /\ program' = IF s # NilStatement THEN Append(program, s) ELSE program
  /\ SetP(nextToken(q))
  /\ stmt' = NilStatement
  /\ pc' = "ParseProgram"

\* an iteration on a `let` token, up to parseLetStatement's return nil or
\* to its loop
ParseLetStatement ==
  /\ pc = "ParseProgram"
  /\ curToken.Type # EOF
  /\ curToken.Type = LET_
  /\ LET r == parseLetStatement(P)
     IN IF r.loop
          THEN /\ SetP(r.p)
               /\ stmt' = r.s
               /\ pc' = "parseLetStatement"
               /\ UNCHANGED program
          ELSE EndIteration(r.p, r.s)
  /\ UNCHANGED << caller, shell, lookup >>

\* parseLetStatement: for !p.curTokenIs(token.SEMICOLON) { p.nextToken() }
LetSkip ==
  /\ pc = "parseLetStatement"
  /\ ~curTokenIs(P, SEMICOLON)
  /\ SetP(nextToken(P))
  /\ UNCHANGED << program, stmt, pc, caller, shell, lookup >>

\* parseLetStatement returns stmt; the iteration ends
LetReturn ==
  /\ pc = "parseLetStatement"
  /\ curTokenIs(P, SEMICOLON)
  /\ EndIteration(P, stmt)
  /\ UNCHANGED << caller, shell, lookup >>

\* an iteration on a `return` token, up to parseReturnStatement's loop
ParseReturnStatement ==
  /\ pc = "ParseProgram"
  /\ curToken.Type # EOF
  /\ curToken.Type = RETURN
  /\ LET r == parseReturnStatement(P)
     IN /\ SetP(r.p)
        /\ stmt' = r.s
  /\ pc' = "parseReturnStatement"
  /\ UNCHANGED << program, caller, shell, lookup >>

\* parseReturnStatement: for !p.curTokenIs(token.SEMICOLON) { p.nextToken() }
ReturnSkip ==
  /\ pc = "parseReturnStatement"
  /\ ~curTokenIs(P, SEMICOLON)
  /\ SetP(nextToken(P))
  /\ UNCHANGED << program, stmt, pc, caller, shell, lookup >>

\* parseReturnStatement returns stmt; the iteration ends
ReturnReturn ==
  /\ pc = "parseReturnStatement"
  /\ curTokenIs(P, SEMICOLON)
  /\ EndIteration(P, stmt)
  /\ UNCHANGED << caller, shell, lookup >>

\* an iteration on any other token: parseExpressionStatement
ParseExpressionStatement ==
  /\ pc = "ParseProgram"
  /\ curToken.Type \notin { EOF, LET_, RETURN }
  /\ LET r == parseExpressionStatement(P)
     IN EndIteration(r.p, r.s)
  /\ UNCHANGED << caller, shell, lookup >>

\* ParseProgram leaves its loop and returns program.  (Its log.Printf of the
\* program calls program.String() inside fmt, which recovers a panic of the
\* String method: the parser state is not touched.)
ParseProgramReturn ==
  /\ pc = "ParseProgram"
  /\ curToken.Type = EOF
  /\ pc' = "returned"
  /\ UNCHANGED << l, errors, curToken, peekToken, program, stmt, caller,
                  shell, lookup >>

\* the caller renders the program: program.String()
String ==
  /\ pc = "returned"
  /\ rendered' = ProgramString(program)
  /\ pc' = "String"
  /\ UNCHANGED << l, errors, curToken, peekToken, program, stmt, round,
                  first, shell, lookup >>

\* the rendering of an error-free parse is parsed again by a new parser
Reparse ==
  /\ pc = "String"
  /\ round = 1
  /\ errors = <<>>
  /\ rendered.ok
  /\ SetP(Fresh(LexerNew(rendered.out)))
  /\ program' = <<>>
  /\ stmt' = NilStatement
  /\ pc' = "New"
  /\ round' = 2
  /\ first' = rendered
  /\ UNCHANGED << rendered, shell, lookup >>

Next ==
  \/ LexNew
  \/ New
  \/ ParseLetStatement
  \/ LetSkip
  \/ LetReturn
  \/ ParseReturnStatement
  \/ ReturnSkip
  \/ ReturnReturn
  \/ ParseExpressionStatement
  \/ ParseProgramReturn
  \/ String
  \/ Reparse

Spec == Init /\ [][Next]_vars

(***************************************************************************)
(* package repl (src/repl/repl.go, first file of the concatenation)        *)
(***************************************************************************)
\* "let x = 5;"
Src_let == <<"l", "e", "t", " ", "x", " ", "=", " ", "5", ";">>
\* "return 5;"
Src_return == <<"r", "e", "t", "u", "r", "n", " ", "5", ";">>
\* "5;"
Src_five == <<"5", ";">>

\* the lines the scanner can deliver
Lines == Words \cup Examples \cup { <<>>, Src_let, Src_return, Src_five }

\* io.WriteString(out, s): s as its format and its operands
Write(format, operands) == [format |-> format, operands |-> operands]

\* Object.Inspect (not part of the tree): the text of a value, kept as the
\* value it renders
Inspect(v) == [inspect |-> v]

\* what printParserErrors writes for the messages es
RECURSIVE ErrorLines(_)
ErrorLines(es) ==
  IF es = <<>> THEN <<>>
  ELSE << Write("\t%s\n", << Head(es) >>) >> \o ErrorLines(Tail(es))

\* printParserErrors(out, errors)
printParserErrors(o, es) ==
  o \o << Write("parser errors:\n", <<>>) >> \o ErrorLines(es)

ReplInit ==
  /\ l = LexerNew(<<>>)
  /\ errors = <<>>
  /\ curToken = ZeroToken
  /\ peekToken = ZeroToken
  /\ program = <<>>
  /\ stmt = NilStatement
  /\ pc = "Scan"
  /\ rendered = Text(<<>>)
  /\ round = 1
  /\ first = Text(<<>>)
  /\ out = <<>>
  /\ lineNo = 0
  /\ evalCalls = <<>>
  /\ ident = <<>>
  /\ tokType = ""

\* Start: scanner.Scan() delivers a line; l := lexer.New(line) and a new
\* Parser value is allocated (parser.New goes on in New)
Scan ==
  /\ pc = "Scan"
  /\ lineNo < MaxLines
  /\ \E line \in Lines : SetP(Fresh(LexerNew(line)))
  /\ program' = <<>>
  /\ stmt' = NilStatement
  /\ lineNo' = lineNo + 1
  /\ pc' = "New"
  /\ UNCHANGED << caller, out, evalCalls, lookup >>

\* Start: scanner.Scan() reports the end of the input; Start returns
ScanEnd ==
  /\ pc = "Scan"
  /\ pc' = "exit"
  /\ UNCHANGED << l, errors, curToken, peekToken, program, stmt, caller,
                  shell, lookup >>

\* the error branch of Start without its `continue`: the errors are printed
\* and the program is evaluated all the same
PrintParserErrors_FallThrough ==
  /\ pc = "returned"
  /\ Len(errors) # 0
  /\ out' = printParserErrors(out, errors)
  /\ evalCalls' = Append(evalCalls, lineNo)
  /\ pc' = "Scan"
  /\ UNCHANGED << l, errors, curToken, peekToken, program, stmt, caller,
                  lineNo, lookup >>

\* Start: len(p.Errors()) != 0: printParserErrors and continue
PrintParserErrors ==
  /\ pc = "returned"
  /\ Len(errors) # 0
  /\ out' = printParserErrors(out, errors)
  /\ pc' = "Scan"
  /\ UNCHANGED << l, errors, curToken, peekToken, program, stmt, caller,
                  lineNo, evalCalls, lookup >>

\* Start: no error: evaluator.Eval(program), and its Inspect() is written
\* unless it is nil
Evaluate ==
  /\ pc = "returned"
  /\ Len(errors) = 0
  /\ evalCalls' = Append(evalCalls, lineNo)
  /\ LET evaluated == Eval(program)
     IN out' = IF evaluated.type # "NULL"
                 THEN out \o << Write("%s", << Inspect(evaluated) >>),
                                Write("\n", <<>>) >>
                 ELSE out
  /\ pc' = "Scan"
  /\ UNCHANGED << l, errors, curToken, peekToken, program, stmt, caller,
                  lineNo, lookup >>

ReplNext ==
  \/ Scan
  \/ ScanEnd
  \/ New
  \/ ParseLetStatement
  \/ LetSkip
  \/ LetReturn
  \/ ParseReturnStatement
  \/ ReturnSkip
  \/ ReturnReturn
  \/ ParseExpressionStatement
  \/ ParseProgramReturn
  \/ PrintParserErrors
  \/ Evaluate

ReplSpec == ReplInit /\ [][ReplNext]_vars

(***************************************************************************)
(* LookupIdent applied to identifiers, as the lexer applies it.            *)
(***************************************************************************)
\* "retur"
Id_retur == <<"r", "e", "t", "u", "r">>
\* "returns"
Id_returns == <<"r", "e", "t", "u", "r", "n", "s">>
\* "Let"
Id_Let == <<"L", "e", "t">>

Idents ==
  Strings({ "f", "n", "l", "e", "t", "i" }, MaxIdent) \cup DOMAIN keywords
  \cup { Id_retur, Id_returns, Id_Let }

LookupInit ==
  /\ l = LexerNew(<<>>)
  /\ errors = <<>>
  /\ curToken = ZeroToken
  /\ peekToken = ZeroToken
  /\ program = <<>>
  /\ stmt = NilStatement
  /\ pc = "LookupIdent"
  /\ rendered = Text(<<>>)
  /\ round = 1
  /\ first = Text(<<>>)
  /\ out = <<>>
  /\ lineNo = 0
  /\ evalCalls = <<>>
  /\ ident = <<>>
  /\ tokType = ""

\* a call LookupIdent(s)
Lookup ==
  /\ pc = "LookupIdent"
  /\ \E s \in Idents :
       /\ ident' = s
       /\ tokType' = LookupIdent(s)
  /\ UNCHANGED << l, errors, curToken, peekToken, program, stmt, pc, caller,
                  shell >>

LookupNext == Lookup

LookupSpec == LookupInit /\ [][LookupNext]_vars

(***************************************************************************)
(* Properties.                                                             *)
(***************************************************************************)
\* ParseProgram has returned, for the source text src, and the program has
\* been rendered
Rendered(src) == pc = "String" /\ round = 1 /\ l.input = src

\* "(5 + (5 * 10))"
Out_5p5m10 ==
  <<"(", "5", " ", "+", " ", "(", "5", " ", "*", " ", "1", "0", ")", ")">>
\* "((-a) * b)"
Out_negAmB == <<"(", "(", "-", "a", ")", " ", "*", " ", "b", ")">>
\* "(3 + 4)((-5) * 5)"
Out_two ==
  <<"(", "3", " ", "+", " ", "4", ")",
    "(", "(", "-", "5", ")", " ", "*", " ", "5", ")">>
\* "((a + b) - c)"
Out_aPbMc ==
  <<"(", "(", "a", " ", "+", " ", "b", ")", " ", "-", " ", "c", ")">>

\* C1: operator precedence.  "5 + 5 * 10" renders as "(5 + (5 * 10))",
\* "-a * b" as "((-a) * b)" and "3 + 4; -5 * 5" as "(3 + 4)((-5) * 5)",
\* and no parse error is recorded.
C1_Precedence ==
  /\ Rendered(Src_5p5m10) => rendered = Text(Out_5p5m10) /\ errors = <<>>
  /\ Rendered(Src_negAmB) => rendered = Text(Out_negAmB) /\ errors = <<>>
  /\ Rendered(Src_two) => rendered = Text(Out_two) /\ errors = <<>>

\* C2: left-associativity.  "a + b - c" renders as "((a + b) - c)".
C2_LeftAssociative ==
  Rendered(Src_aPbMc) => rendered = Text(Out_aPbMc)

\* ParseProgram is in a loop whose condition holds and whose body changes
\* nothing: the tokenizer returning EOF for ever, the loop is never left
Spinning ==
  /\ pc \in { "parseLetStatement", "parseReturnStatement" }
  /\ ~curTokenIs(P, SEMICOLON)
  /\ nextToken(P) = P

\* C3: ParseProgram terminates on every finite token sequence, also for
\* "let x = 5" and "return 5" without a semicolon before the end of input:
\* it never reaches a state from which it cannot return.
C3_Terminates == ~Spinning

\* a `let` token begins a statement and is not followed by an identifier
\* and then `=`
MalformedLet ==
  /\ pc = "ParseProgram"
  /\ curToken.Type = LET_
  /\ peekToken.Type # IDENT \/ NextToken(l).tok.Type # ASSIGN

\* C4: a let statement that misses an expected token records exactly one
\* "expected next token to be X, got Y instead" error and is dropped:
\* Program.Statements gets no entry for it, not even a nil placeholder.
C4_MalformedLetDropped ==
  [][MalformedLet =>
       /\ Len(errors') = Len(errors) + 1
       /\ SubSeq(errors', 1, Len(errors)) = errors
       /\ errors'[Len(errors')].format
            = "expected next token to be %s, got %s instead"
       /\ program' = program]_vars

\* an Expression with a nil operand somewhere: a parse that failed
RECURSIVE HasNil(_)
HasNil(e) ==
  \/ e = NilExpression
  \/ e.node = "*ast.PrefixExpression" /\ HasNil(e.Right)

\* a statement of the program whose parse failed
Malformed(s) ==
  \/ s = NilLetStatement
  \/ s.node = "*ast.ExpressionStatement" /\ HasNil(s.Expression)

PeekFormat == "expected next token to be %s, got %s instead"

\* between two statements, the error list matches the malformed statements
\* parsed so far one to one and in order: a let statement that failed has
\* its "expected next token" message, an expression that failed its own
ErrorsMatchStatements ==
  pc \in { "ParseProgram", "returned", "String" } =>
    LET bad == SelectSeq(program, Malformed)
    IN /\ Len(errors) = Len(bad)
       /\ \A k \in 1..Len(bad) :
            (bad[k] = NilLetStatement) <=> (errors[k].format = PeekFormat)

\* a parser's error list only grows at its end
ErrorsAppendOnly ==
  round' = round =>
    /\ Len(errors') >= Len(errors)
    /\ SubSeq(errors', 1, Len(errors)) = errors

\* a statement begins with a token that can begin neither a statement nor
\* an expression
MalformedExpression ==
  /\ pc = "ParseProgram"
  /\ curToken.Type \notin { EOF, LET_, RETURN, IDENT, INT, BANG, MINUS }

\* a statement that is malformed where it begins gets its own message, which
\* names the token found, whatever was recorded before
OwnMessage ==
  /\ MalformedLet =>
       errors' = Append(errors,
         IF peekToken.Type # IDENT
           THEN Sprintf(PeekFormat, << "IDENT", peekToken.Type >>)
           ELSE Sprintf(PeekFormat, << "=", NextToken(l).tok.Type >>))
  /\ MalformedExpression =>
       errors' = Append(errors,
         Sprintf("no prefix parse function for %s found",
                 << curToken.Type >>))

C6_IntegerLiteral ==
  (pc = "returned" /\ round = 1 /\ l.input \in Strings(Digits, MaxDigits)) =>
    /\ errors = <<>>
    /\ Len(program) = 1
    /\ program[1].Expression
         = IntegerLiteral(Token(INT, l.input), DigitsValue(l.input, 10))
    /\ Eval(program) = Integer(DigitsValue(l.input, 10))

\* C7: round trip.  The rendering of an error-free parse, parsed again,
\* renders to the identical string.
C7_RoundTrip ==
  (pc = "String" /\ round = 2) => rendered = first

\* C8: Program.String() on the program ParseProgram returned completes
\* without a runtime fault, whatever the input.
C8_NoFault ==
  pc = "String" => rendered.ok

\* the number of times line k was handed to Eval
EvalCount(k) == Cardinality({ i \in 1..Len(evalCalls) : evalCalls[i] = k })

\* the line being processed is parsed to its end
ParsedToCompletion ==
  /\ curToken.Type = EOF
  /\ NextToken(l).tok.Type = EOF

\* the repl is between two lines: the last line read has been parsed to its
\* end and was evaluated exactly once if it had no error, never otherwise;
\* no line is ever evaluated twice
ReplLineDone ==
  /\ \A k \in 1..MaxLines : EvalCount(k) <= 1
  /\ (pc \in { "Scan", "exit" } /\ lineNo > 0) =>
       /\ ParsedToCompletion
       /\ EvalCount(lineNo) = IF errors = <<>> THEN 1 ELSE 0

\* a step of the repl: a line is read only between two lines; Eval is called
\* only for the current line, when its error list is empty; a non-empty
\* error list is written whole and in order, without a call of Eval
ReplStep ==
  /\ lineNo' # lineNo => pc = "Scan" /\ (lineNo > 0 => ParsedToCompletion)
  /\ evalCalls' # evalCalls =>
       /\ errors = <<>>
       /\ pc = "returned"
       /\ evalCalls' = Append(evalCalls, lineNo)
  /\ (pc = "returned" /\ errors # <<>>) =>
       /\ Len(out') = Len(out) + 1 + Len(errors)
       /\ SubSeq(out', 1, Len(out)) = out
       /\ \A k \in 1..Len(errors) :
            out'[Len(out) + 1 + k] = Write("\t%s\n", << errors[k] >>)
       /\ evalCalls' = evalCalls

\* C10: in the repl loop a line is lexed and parsed to completion before the
\* next line is read; a non-empty error list is written in order and Eval is
\* not called for that line; Eval is called exactly once for a line without
\* errors.
C10_ReplLoop == []ReplLineDone /\ [][ReplStep]_vars

\* the repl has printed the errors of one line and evaluated another
C10_Witness ==
  /\ pc = "Scan"
  /\ lineNo = 2
  /\ Len(evalCalls) = 1
  /\ \E i \in 1..Len(out) : out[i].format = "\t%s\n"

\* C9: LookupIdent returns the keyword kind exactly for "fn", "let", "true",
\* "false", "if", "else" and "return", and IDENT for every other string.
C9_LookupIdent ==
  tokType # "" =>
    /\ ident = <<"f", "n">> => tokType = "FUNCTION"
    /\ ident = <<"l", "e", "t">> => tokType = "LET"
    /\ ident = <<"t", "r", "u", "e">> => tokType = "TRUE"
    /\ ident = <<"f", "a", "l", "s", "e">> => tokType = "FALSE"
    /\ ident = <<"i", "f">> => tokType = "IF"
    /\ ident = <<"e", "l", "s", "e">> => tokType = "ELSE"
    /\ ident = <<"r", "e", "t", "u", "r", "n">> => tokType = "RETURN"
    /\ ident \notin { <<"f", "n">>, <<"l", "e", "t">>, <<"t", "r", "u", "e">>,
                      <<"f", "a", "l", "s", "e">>, <<"i", "f">>,
                      <<"e", "l", "s", "e">>,
                      <<"r", "e", "t", "u", "r", "n">> }
         => tokType = "IDENT"

\* LookupIdent was applied to a keyword
C9_Witness == ident = <<"r", "e", "t", "u", "r", "n">> /\ tokType = "RETURN"


(***************************************************************************)
(* The two-token window over the token stream.                             *)
(***************************************************************************)
\* the lexer after n calls of NextToken on a fresh lexer over input
RECURSIVE LexAfter(_, _)
LexAfter(input, n) ==
  IF n = 0 THEN LexerNew(input) ELSE NextToken(LexAfter(input, n - 1)).l

\* the i-th token of the stream of input, i >= 1 (EOF for ever at the end)
TokenAt(input, i) == NextToken(LexAfter(input, i - 1)).tok

\* no stream of input has more tokens than characters, EOF apart
MaxIndex(input) == Len(input) + 2

\* the results of n successive calls of NextToken from lexer lx, after acc
RECURSIVE Pulls(_, _, _)
Pulls(lx, n, acc) ==
  IF n = 0 THEN acc
  ELSE LET r == NextToken(lx) IN Pulls(r.l, n - 1, Append(acc, r))

\* the token stream of input with the lexer after each token
Stream(input) == Pulls(LexerNew(input), MaxIndex(input) + 2, <<>>)

\* in stream st, parser q holds the i-th and (i+1)-th tokens and its lexer
\* has produced exactly i + 1 tokens
AtIndexIn(st, q, i) ==
  /\ q.curToken = st[i].tok
  /\ q.peekToken = st[i + 1].tok
  /\ q.l = st[i + 1].l

AtIndex(q, i) ==
  /\ q.curToken = TokenAt(q.l.input, i)
  /\ q.peekToken = TokenAt(q.l.input, i + 1)
  /\ q.l = LexAfter(q.l.input, i + 1)

\* the least such index
Index(st, q) == CHOOSE i \in 1..(Len(st) - 2) :
                  AtIndexIn(st, q, i) /\ \A j \in 1..(i - 1) : ~AtIndexIn(st, q, j)

\* New has returned
Constructed == pc \notin {"lexer.New", "New"}

LockStep ==
  Constructed =>
    LET st == Stream(l.input)
    IN \E i \in 1..MaxIndex(l.input) : AtIndexIn(st, P, i)

\* one call of nextToken moves the window by one token; expectPeek moves it
\* by one token when it succeeds and leaves it alone when it fails
PullsOne ==
  Constructed =>
    LET st == Stream(l.input)
        q == nextToken(P)
    IN \A i \in 1..MaxIndex(l.input) :
         AtIndexIn(st, P, i) =>
           /\ AtIndexIn(st, q, i + 1)
           /\ q.curToken = peekToken
           /\ \A t \in {IDENT, INT, ASSIGN, SEMICOLON} :
                LET r == expectPeek(P, t)
                IN IF r.ok THEN AtIndexIn(st, r.p, i + 1) /\ r.p.curToken.Type = t
                           ELSE AtIndexIn(st, r.p, i) /\ r.p.l = l

\* after New, curToken is the first token and peekToken the second
AfterNew == pc = "New" => AtIndex(P', 1)

\* within one parse the window never moves backwards
Forward ==
  (Constructed /\ Constructed') =>
    LET st == Stream(l.input) IN Index(st, P') >= Index(st, P)

\* C11: in every state after New, curToken is the i-th token of the stream
\* and peekToken the (i+1)-th, the lexer having produced exactly i + 1
\* tokens; nextToken pulls exactly one token, so that none is skipped or
\* delivered twice; right after New the window is on tokens 1 and 2.
C11_LockStep == [](LockStep /\ PullsOne) /\ [][AfterNew /\ Forward]_vars

\* the window on "=" and "5" of a let statement, three tokens in
C11_Witness ==
  /\ Constructed
  /\ AtIndex(P, 3)
  /\ curToken.Type = ASSIGN
  /\ peekToken.Type = INT
  /\ TokenAt(l.input, 1).Type = LET_

(***************************************************************************)
(* The token kinds as an enumeration.                                      *)
(***************************************************************************)
\* the constants of the const block, in its order
TokenTypes ==
  << ILLEGAL, EOF, IDENT, INT, ASSIGN, PLUS, MINUS, BANG, ASTERISK, SLASH,
     LT, GT, EQ, NOT_EQ, COMMA, SEMICOLON, LPAREN, RPAREN, LBRACE, RBRACE,
     FUNCTION, LET_, TRUE_, FALSE_, IF_, ELSE_, RETURN >>

\* the symbol each operator and delimiter kind stands for
Symbols ==
  << <<ASSIGN, "=">>, <<PLUS, "+">>, <<MINUS, "-">>, <<BANG, "!">>,
     <<ASTERISK, "*">>, <<SLASH, "/">>, <<LT, "<">>, <<GT, ">">>,
     <<EQ, "==">>, <<NOT_EQ, "!=">>, <<COMMA, ",">>, <<SEMICOLON, ";">>,
     <<LPAREN, "(">>, <<RPAREN, ")">>, <<LBRACE, "{">>, <<RBRACE, "}">> >>

KindsDistinct ==
  \A i, j \in DOMAIN TokenTypes : i # j => TokenTypes[i] # TokenTypes[j]

SymbolValues == \A i \in DOMAIN Symbols : Symbols[i][1] = Symbols[i][2]

\* the kinds whose tokens always have the same literal
FixedKinds == { TokenTypes[i] : i \in DOMAIN TokenTypes } \ {ILLEGAL, IDENT, INT}

\* two tokens of fixed kinds in the parser's window that are different
\* symbols have different Types
TypeTellsSymbol ==
  ( /\ curToken.Type \in FixedKinds
    /\ peekToken.Type \in FixedKinds
    /\ curToken.Literal # peekToken.Literal ) => curToken.Type # peekToken.Type

\* C12: no two token-kind constants have the same value, each operator and
\* delimiter kind has its symbol as value (LBRACE is "{", RBRACE is "}"),
\* and tokens of different symbols differ in Type.
C12_KindsDistinct == KindsDistinct /\ SymbolValues /\ TypeTellsSymbol

====
